---- MODULE Spec2Model ----
(***************************************************************************)
(* Operation keys, transition keys, transition magic, result               *)
(* classification, digest filtering and the meta-data policy of            *)
(* lib/common/operations.c.                                                *)
(*                                                                         *)
(* A C string is a sequence of one-character strings; the null pointer is  *)
(* NULL.  A guint is a pair <<hi, lo>> of 16-bit limbs (value hi*2^16+lo), *)
(* so that 32-bit unsigned arithmetic is computed at its real width.  An   *)
(* int is an integer of -2^31 .. 2^31-1.                                   *)
(***************************************************************************)
EXTENDS Integers, Sequences, FiniteSets, TLC

VARIABLES
    last,           \* the function of operations.c that was called last
    key,            \* the string buffer a key encoder returned or a caller supplies
    src,            \* where key comes from: the encoder's arguments, or the caller
    ret,            \* the last call's return value
    fate,           \* whether the process still runs: CRM_ASSERT aborts it, an
                    \* access outside an object leaves it undefined
    rsc_id,         \* parse_op_key's output *rsc_id
    op_type,        \* parse_op_key's output *op_type
    interval_ms,    \* parse_op_key's output *interval_ms
    uuid,           \* decode_transition_*'s output *uuid
    transition_id,  \* decode_transition_*'s output *transition_id
    action_id,      \* decode_transition_*'s output *action_id
    op_status,      \* decode_transition_magic's output *op_status
    op_rc,          \* decode_transition_magic's output *op_rc
    target_rc,      \* decode_transition_*'s output *target_rc
    pre,            \* the caller's output variables as they were before the call
    param_set,      \* the attributes of the XML element given to the digest filter
    filtered        \* param_set after each application of the digest filter so far

vars == <<last, key, src, ret, fate, rsc_id, op_type, interval_ms, uuid, transition_id,
          action_id, op_status, op_rc, target_rc, pre, param_set, filtered>>

----------------------------------------------------------------------------
(* C strings *)

NULL == <<"<NULL>">>

Space == " "

isspace(c) == c = Space

Digits == <<"0", "1", "2", "3", "4", "5", "6", "7", "8", "9">>

isdigit(c) == \E d \in 1..10 : Digits[d] = c

DigitVal(c) == (CHOOSE d \in 1..10 : Digits[d] = c) - 1

DigitChar(d) == Digits[d + 1]

HasChar(s, c) == \E i \in 1..Len(s) : s[i] = c

\* strstr(s, t): the 0-based offset of the first occurrence of t in s, or -1
strstr(s, t) ==
    LET hits == {i \in 0..(Len(s) - Len(t)) : SubSeq(s, i + 1, i + Len(t)) = t}
    IN  IF hits = {} THEN -1 ELSE CHOOSE i \in hits : \A j \in hits : i <= j

\* the C string that starts at 0-based offset i of s
StrFrom(s, i) == SubSeq(s, i + 1, Len(s))

\* strndup(s, n)
strndup(s, n) == SubSeq(s, 1, IF n < Len(s) THEN n ELSE Len(s))

\* Op applied to the value of v, v being computed once
With(v, Op(_)) == CHOOSE r \in {Op(x) : x \in {v}} : TRUE

RECURSIVE Repeat(_, _)
Repeat(c, n) == IF n <= 0 THEN <<>> ELSE <<c>> \o Repeat(c, n - 1)

RECURSIVE Concat(_)
Concat(ss) == IF ss = <<>> THEN <<>> ELSE Head(ss) \o Concat(Tail(ss))

----------------------------------------------------------------------------
(* guint: 32-bit unsigned arithmetic on 16-bit limbs *)

Limb == 256 * 256

U32(hi, lo) == <<hi, lo>>

U32Zero == U32(0, 0)

U32Small(n) == U32(n \div Limb, n % Limb)

\* (a + b) mod 2^32
U32Add(a, b) ==
    LET lo == a[2] + b[2]
    IN  U32((a[1] + b[1] + (lo \div Limb)) % Limb, lo % Limb)

\* (a * 10) mod 2^32
U32Mul10(a) ==
    LET lo == a[2] * 10
    IN  U32((a[1] * 10 + (lo \div Limb)) % Limb, lo % Limb)

\* a div 10 and a mod 10
U32Div10(a) ==
    LET r == a[1] % 10
    IN  U32(a[1] \div 10, (r * Limb + a[2]) \div 10)

U32Mod10(a) == ((a[1] % 10) * Limb + a[2]) % 10

\* printf("%u"): plain decimal, no sign, no leading zeros
RECURSIVE FmtU(_)
FmtU(u) ==
    IF u[1] = 0 /\ u[2] < 10 THEN <<DigitChar(u[2])>>
    ELSE With(U32Div10(u), LAMBDA q : FmtU(q)) \o <<DigitChar(U32Mod10(u))>>

\* printf("%d")
RECURSIVE FmtNeg(_)
FmtNeg(n) ==
    With((10 - (n % 10)) % 10, LAMBDA d :
      With((n + d) \div 10, LAMBDA q :
        IF q = 0 THEN <<DigitChar(d)>> ELSE FmtNeg(q) \o <<DigitChar(d)>>))

FmtD(n) == IF n < 0 THEN <<"-">> \o FmtNeg(n) ELSE FmtNeg(0 - n)

----------------------------------------------------------------------------
(* Operation keys: pcmk__op_key, parse_op_key, pcmk__notify_key *)

Underscore == "_"

s_post_notify == <<"_", "p", "o", "s", "t", "_", "n", "o", "t", "i", "f", "y">>

s_pre_notify == <<"_", "p", "r", "e", "_", "n", "o", "t", "i", "f", "y">>

s_notify == <<"_", "n", "o", "t", "i", "f", "y", "_">>

\* PCMK__OP_FMT, "%s_%s_%u"
OpFmt(r, a, i) == r \o <<Underscore>> \o a \o <<Underscore>> \o FmtU(i)

\* CRM_ASSERT ends the process when its condition is false
pcmk__op_key(r, a, i) ==
    IF r = NULL \/ a = NULL THEN [ret |-> "abort", key |-> NULL]
    ELSE [ret |-> "ok", key |-> OpFmt(r, a, i)]

\* CRM_CHECK(..., return NULL) gives the caller a null pointer
pcmk__notify_key(r, notify_type, a) ==
    IF r = NULL \/ a = NULL \/ notify_type = NULL THEN [ret |-> "ok", key |-> NULL]
    ELSE [ret |-> "ok",
          key |-> r \o <<Underscore>> \o notify_type \o s_notify \o a
                    \o <<Underscore, "0">>]

\* key[offset], offset counted from 0 as in C
At(k, offset) == k[offset + 1]

\* ch = key[offset] - '0', multiplied by ten (digits - 1) times; only its low
\* 32 bits reach local_interval_ms, so it is carried modulo 2^32
RECURSIVE DigitWeight(_, _)
DigitWeight(ch, digits) ==
    IF digits > 1
    THEN With(U32Mul10(ch), LAMBDA ten : DigitWeight(ten, digits - 1))
    ELSE ch

\* the first loop: the trailing digits, weighted by position, added into
\* local_interval_ms; stops at offset 0 or at the first non-digit
RECURSIVE ScanInterval(_, _, _)
ScanInterval(k, offset, local) ==
    IF offset > 0 /\ isdigit(At(k, offset))
    THEN With(U32Add(local, DigitWeight(U32Small(DigitVal(At(k, offset))),
                                        Len(k) - offset)),
              LAMBDA sum : ScanInterval(k, offset - 1, sum))
    ELSE [offset |-> offset, local_interval_ms |-> local]

\* the second loop: back to the previous '_' or to offset 0
RECURSIVE ScanAction(_, _)
ScanAction(k, offset) ==
    IF offset > 0 /\ At(k, offset) /= Underscore
    THEN ScanAction(k, offset - 1) ELSE offset

\* notify = strstr(mutable_key, marker);
\* if (notify && safe_str_eq(notify, marker)) notify[0] = 0;
StripNotify(mutable_key, marker) ==
    LET notify == strstr(mutable_key, marker)
    IN  IF notify /= -1 /\ StrFrom(mutable_key, notify) = marker
        THEN SubSeq(mutable_key, 1, notify)
        ELSE mutable_key

\* what a failed CRM_CHECK returns: the outputs as written so far
OpKeyFail(local) ==
    [ret |-> FALSE, rsc_id |-> NULL, op_type |-> NULL, interval_ms |-> local,
     ub |-> FALSE]

\* OpKeySplit with the action taken from the '_' on, not from after it
OpKeySplitFromDelimiter(mutable_key, offset, local) ==
    [ret |-> TRUE,
     rsc_id |-> SubSeq(mutable_key, 1, offset),
     op_type |-> StrFrom(mutable_key, offset),
     interval_ms |-> local,
     ub |-> FALSE]

\* from "mutable_key_ptr = mutable_key + offset + 1" to "return TRUE"
OpKeySplit(mutable_key, offset, local) ==
    [ret |-> TRUE,
     rsc_id |-> StripNotify(StripNotify(SubSeq(mutable_key, 1, offset),
                                        s_post_notify), s_pre_notify),
     op_type |-> StrFrom(mutable_key, offset + 1),
     interval_ms |-> local,
     ub |-> FALSE]

\* parse_op_key with every output supplied.  ub: the unsigned offset was
\* decremented at 0, so that key[offset] reads outside the string.
parse_op_key(k) ==
    IF k = NULL \/ k = <<>> THEN OpKeyFail(U32Zero)
    ELSE
      With(ScanInterval(k, Len(k) - 1, U32Zero), LAMBDA s1 :
        IF ~(s1.offset /= Len(k) - 1 /\ At(k, s1.offset) = Underscore)
        THEN OpKeyFail(s1.local_interval_ms)
        ELSE IF s1.offset = 0
        THEN [OpKeyFail(s1.local_interval_ms) EXCEPT !.ub = TRUE]
        ELSE
          With(ScanAction(k, s1.offset - 1), LAMBDA offset :
            IF At(k, offset) /= Underscore
            THEN OpKeyFail(s1.local_interval_ms)
            ELSE OpKeySplit(strndup(k, s1.offset), offset, s1.local_interval_ms)))

----------------------------------------------------------------------------
(* sscanf, for the two formats operations.c uses *)

Colon == ":"

Semicolon == ";"

\* the first position at or after i (counted from 1) that holds no white space
RECURSIVE SkipSpace(_, _)
SkipSpace(s, i) ==
    IF i <= Len(s) /\ isspace(s[i]) THEN SkipSpace(s, i + 1) ELSE i

\* the decimal digits from position i on, accumulated below zero so that
\* INT_MIN is read without overflow
RECURSIVE ScanDigits(_, _, _)
ScanDigits(s, i, acc) ==
    IF i <= Len(s) /\ isdigit(s[i])
    THEN ScanDigits(s, i + 1, acc * 10 - DigitVal(s[i]))
    ELSE [next |-> i, neg |-> acc]

\* %d: white space, an optional sign, at least one digit.
\* eof: the input ended before anything could be matched.
ScanInt(s, i) ==
    With(SkipSpace(s, i), LAMBDA j :
      LET signed == j <= Len(s) /\ s[j] \in {"-", "+"}
          k == IF signed THEN j + 1 ELSE j
      IN  With(ScanDigits(s, k, 0), LAMBDA d :
            IF j > Len(s) THEN [ok |-> FALSE, eof |-> TRUE, val |-> 0, next |-> j]
            ELSE IF d.next = k
                 THEN [ok |-> FALSE, eof |-> FALSE, val |-> 0, next |-> k]
            ELSE [ok |-> TRUE, eof |-> FALSE,
                  val |-> IF signed /\ s[j] = "-" THEN d.neg ELSE 0 - d.neg,
                  next |-> d.next]))

\* the end of the run of non-white-space characters that starts at i and is at
\* most width characters long (width 0: no limit)
RECURSIVE ScanWord(_, _, _, _)
ScanWord(s, i, n, width) ==
    IF i <= Len(s) /\ ~isspace(s[i]) /\ (width = 0 \/ n < width)
    THEN ScanWord(s, i + 1, n + 1, width) ELSE i

\* %s, %36s, %ms: white space, then one or more non-white-space characters
ScanStr(s, i, width) ==
    With(SkipSpace(s, i), LAMBDA j :
      With(ScanWord(s, j, 0, width), LAMBDA e :
        IF j > Len(s) THEN [ok |-> FALSE, str |-> <<>>, next |-> j]
        ELSE [ok |-> TRUE, str |-> SubSeq(s, j, e - 1), next |-> e]))

\* a literal character of the format
ScanLit(s, i, c) == i <= Len(s) /\ s[i] = c

EOF == -1

UuidWidth == 36

\* sscanf(s, "%d<sep1>%d<sep2>..."): the first two conversions and separators
\* that both formats share; n counts the conversions done, next is where the
\* rest of the format goes on (0: it does not)
ScanTwoInts(s, sep1, sep2) ==
    With(ScanInt(s, 1), LAMBDA a :
      IF ~a.ok THEN [n |-> IF a.eof THEN EOF ELSE 0, a |-> -1, b |-> -1, next |-> 0]
      ELSE IF ~ScanLit(s, a.next, sep1)
           THEN [n |-> 1, a |-> a.val, b |-> -1, next |-> 0]
      ELSE With(ScanInt(s, a.next + 1), LAMBDA b :
             IF ~b.ok THEN [n |-> 1, a |-> a.val, b |-> -1, next |-> 0]
             ELSE IF ~ScanLit(s, b.next, sep2)
                  THEN [n |-> 2, a |-> a.val, b |-> b.val, next |-> 0]
             ELSE [n |-> 2, a |-> a.val, b |-> b.val, next |-> b.next + 1]))

\* sscanf(key, "%d:%d:%d:%36s", &local_action_id, &local_transition_id,
\*        &local_target_rc, local_uuid)
sscanf_key(s) ==
    With(ScanTwoInts(s, Colon, Colon), LAMBDA two :
      LET none == [n |-> two.n, local_action_id |-> two.a,
                   local_transition_id |-> two.b, local_target_rc |-> -1,
                   local_uuid |-> <<>>]
      IN  IF two.next = 0 THEN none
          ELSE With(ScanInt(s, two.next), LAMBDA c :
                 IF ~c.ok THEN none
                 ELSE IF ~ScanLit(s, c.next, Colon)
                      THEN [none EXCEPT !.n = 3, !.local_target_rc = c.val]
                 ELSE With(ScanStr(s, c.next + 1, UuidWidth), LAMBDA u :
                        IF ~u.ok
                        THEN [none EXCEPT !.n = 3, !.local_target_rc = c.val]
                        ELSE [none EXCEPT !.n = 4, !.local_target_rc = c.val,
                                          !.local_uuid = u.str])))

\* sscanf(magic, "%d:%d;%ms", &local_op_status, &local_op_rc, &key)
sscanf_magic(s) ==
    With(ScanTwoInts(s, Colon, Semicolon), LAMBDA two :
      LET none == [n |-> two.n, local_op_status |-> two.a, local_op_rc |-> two.b,
                   key |-> NULL]
      IN  IF two.next = 0 THEN none
          ELSE With(ScanStr(s, two.next, 0), LAMBDA k :
                 IF ~k.ok THEN none ELSE [none EXCEPT !.n = 3, !.key = k.str]))

----------------------------------------------------------------------------
(* Transition keys and transition magic *)

\* printf("%-*s", 36, node): left-justified in a field of at least 36
PadField(node) == node \o Repeat(Space, UuidWidth - Len(node))

\* pcmk__transition_key with the two identifiers printed in the other order
TransitionKeyIdsSwapped(tid, aid, trc, node) ==
    IF node = NULL THEN NULL
    ELSE FmtD(tid) \o <<Colon>> \o FmtD(aid) \o <<Colon>> \o FmtD(trc)
           \o <<Colon>> \o PadField(node)

\* crm_strdup_printf("%d:%d:%d:%-*s", action_id, transition_id, target_rc, 36, node)
pcmk__transition_key(tid, aid, trc, node) ==
    IF node = NULL THEN NULL
    ELSE FmtD(aid) \o <<Colon>> \o FmtD(tid) \o <<Colon>> \o FmtD(trc)
           \o <<Colon>> \o PadField(node)

\* the caller's output variables: o holds them as they are before the call,
\* supplied names those whose pointer is not NULL
Put(o, supplied, field, value) ==
    IF field \in supplied THEN [o EXCEPT ![field] = value] ELSE o

\* lines 226-238: initialize any supplied output arguments
KeyOutputsInit(o, supplied) ==
    Put(Put(Put(Put(o, supplied, "uuid", NULL), supplied, "transition_id", -1),
            supplied, "action_id", -1), supplied, "target_rc", -1)

\* lines 249-261: store what was parsed
KeyOutputsStore(o, supplied, got) ==
    Put(Put(Put(Put(o, supplied, "uuid", got.local_uuid),
                supplied, "transition_id", got.local_transition_id),
            supplied, "action_id", got.local_action_id),
        supplied, "target_rc", got.local_target_rc)

decode_transition_key(k, o, supplied) ==
    With(KeyOutputsInit(o, supplied), LAMBDA init :
      IF k = NULL THEN [ret |-> FALSE, out |-> init, warned |-> FALSE]
      ELSE With(sscanf_key(k), LAMBDA got :
             IF got.n /= 4 THEN [ret |-> FALSE, out |-> init, warned |-> FALSE]
             ELSE [ret |-> TRUE, out |-> KeyOutputsStore(init, supplied, got),
                   warned |-> Len(got.local_uuid) /= UuidWidth]))

\* lines 182-187
MagicOutputsStore(o, supplied, got) ==
    Put(Put(o, supplied, "op_status", got.local_op_status),
        supplied, "op_rc", got.local_op_rc)

\* built where sscanf has the %ms conversion (SSCANF_HAS_M)
decode_transition_magic(magic, o, supplied) ==
    IF magic = NULL THEN [ret |-> FALSE, out |-> o]
    ELSE With(sscanf_magic(magic), LAMBDA got :
           IF got.n = EOF THEN [ret |-> FALSE, out |-> o]
           ELSE IF got.n < 3 THEN [ret |-> FALSE, out |-> o]
           ELSE With(MagicOutputsStore(o, supplied, got), LAMBDA mine :
                  With(decode_transition_key(got.key, mine,
                                             supplied \ {"op_status", "op_rc"}),
                       LAMBDA sub : [ret |-> sub.ret, out |-> sub.out])))

----------------------------------------------------------------------------
(* Results: rsc_op_expected_rc, did_rsc_op_fail *)

\* an lrmd_event_data_t, as far as operations.c reads it
Event(user_data, status, rc) == [user_data |-> user_data, op_status |-> status, rc |-> rc]

NoEvent == [user_data |-> NULL, op_status |-> "NULL", rc |-> 0]

rsc_op_expected_rc(op) ==
    LET rc == 0
    IN  IF op /= NoEvent /\ op.user_data /= NULL
        THEN decode_transition_key(op.user_data, [target_rc |-> rc],
                                   {"target_rc"}).out.target_rc
        ELSE rc

\* did_rsc_op_fail without the case for cancelled operations
DidFailCancelledByRc(op, trc) ==
    CASE op.op_status \in {"PCMK_LRM_OP_PENDING"} -> FALSE
      [] op.op_status \in {"PCMK_LRM_OP_NOTSUPPORTED", "PCMK_LRM_OP_TIMEOUT",
                           "PCMK_LRM_OP_ERROR", "PCMK_LRM_OP_NOT_CONNECTED",
                           "PCMK_LRM_OP_INVALID"} -> TRUE
      [] OTHER -> trc /= op.rc

did_rsc_op_fail(op, trc) ==
    CASE op.op_status \in {"PCMK_LRM_OP_CANCELLED", "PCMK_LRM_OP_PENDING"} -> FALSE
      [] op.op_status \in {"PCMK_LRM_OP_NOTSUPPORTED", "PCMK_LRM_OP_TIMEOUT",
                           "PCMK_LRM_OP_ERROR", "PCMK_LRM_OP_NOT_CONNECTED",
                           "PCMK_LRM_OP_INVALID"} -> TRUE
      [] OTHER -> IF trc /= op.rc THEN TRUE ELSE FALSE

----------------------------------------------------------------------------
(* crm_op_needs_metadata *)

CRMD_ACTION_START == <<"s", "t", "a", "r", "t">>

CRMD_ACTION_STATUS == <<"m", "o", "n", "i", "t", "o", "r">>

CRMD_ACTION_PROMOTE == <<"p", "r", "o", "m", "o", "t", "e">>

CRMD_ACTION_DEMOTE == <<"d", "e", "m", "o", "t", "e">>

CRMD_ACTION_RELOAD == <<"r", "e", "l", "o", "a", "d">>

CRMD_ACTION_MIGRATE == <<"m", "i", "g", "r", "a", "t", "e", "_", "t", "o">>

CRMD_ACTION_MIGRATED == <<"m", "i", "g", "r", "a", "t", "e", "_", "f", "r", "o", "m">>

CRMD_ACTION_NOTIFY == <<"n", "o", "t", "i", "f", "y">>

c_ocf == <<"o", "c", "f">>

c_stonith == <<"s", "t", "o", "n", "i", "t", "h">>

c_lsb == <<"l", "s", "b">>

c_systemd == <<"s", "y", "s", "t", "e", "m", "d">>

\* the capability table: which resource classes use parameters
pcmk_get_ra_caps(rsc_class) ==
    IF rsc_class = c_ocf THEN {"pcmk_ra_cap_provider", "pcmk_ra_cap_params",
                               "pcmk_ra_cap_promotable"}
    ELSE IF rsc_class = c_stonith THEN {"pcmk_ra_cap_params"}
    ELSE {}

\* pcmk__str_eq(a, b, pcmk__str_null_matches); b is never NULL here
StrEqNullMatches(a, b) == a = NULL \/ a = b

\* strcmp(a, b) != 0
strcmp(a, b) == a /= b

\* NeededFor with notify left out of the list
NeededForNoNotify(op) ==
    ~(   ~StrEqNullMatches(op, CRMD_ACTION_START)
      /\ strcmp(op, CRMD_ACTION_STATUS)
      /\ strcmp(op, CRMD_ACTION_PROMOTE)
      /\ strcmp(op, CRMD_ACTION_DEMOTE)
      /\ strcmp(op, CRMD_ACTION_RELOAD)
      /\ strcmp(op, CRMD_ACTION_MIGRATE)
      /\ strcmp(op, CRMD_ACTION_MIGRATED))

NeededFor(op) ==
    ~(   ~StrEqNullMatches(op, CRMD_ACTION_START)
      /\ strcmp(op, CRMD_ACTION_STATUS)
      /\ strcmp(op, CRMD_ACTION_PROMOTE)
      /\ strcmp(op, CRMD_ACTION_DEMOTE)
      /\ strcmp(op, CRMD_ACTION_RELOAD)
      /\ strcmp(op, CRMD_ACTION_MIGRATE)
      /\ strcmp(op, CRMD_ACTION_MIGRATED)
      /\ strcmp(op, CRMD_ACTION_NOTIFY))

crm_op_needs_metadata(rsc_class, op) ==
    IF ~(rsc_class /= NULL \/ op /= NULL) THEN FALSE
    ELSE IF rsc_class /= NULL /\ "pcmk_ra_cap_params" \notin pcmk_get_ra_caps(rsc_class)
    THEN FALSE
    ELSE NeededFor(op)

----------------------------------------------------------------------------
(* pcmk__filter_op_for_digest *)

\* An xmlNode pointer: null, or an element whose attributes are a function from
\* attribute names to values.
XmlNull == [null |-> TRUE, attrs |-> <<>>]

Xml(attrs) == [null |-> FALSE, attrs |-> attrs]

XML_ATTR_ID == <<"i", "d">>

XML_ATTR_CRM_VERSION == <<"c", "r", "m", "_", "f", "e", "a", "t", "u", "r", "e", "_", "s", "e", "t">>

XML_LRM_ATTR_OP_DIGEST == <<"o", "p", "-", "d", "i", "g", "e", "s", "t">>

XML_LRM_ATTR_TARGET == <<"o", "n", "_", "n", "o", "d", "e">>

XML_LRM_ATTR_TARGET_UUID == <<"o", "n", "_", "n", "o", "d", "e", "_", "u", "u", "i", "d">>

s_pcmk_external_ip == <<"p", "c", "m", "k", "_", "e", "x", "t", "e", "r", "n", "a", "l", "_", "i", "p">>

XML_LRM_ATTR_INTERVAL_MS == <<"i", "n", "t", "e", "r", "v", "a", "l">>

XML_ATTR_TIMEOUT == <<"t", "i", "m", "e", "o", "u", "t">>

CRM_META == <<"C", "R", "M", "_", "m", "e", "t", "a">>

attr_filter ==
    {XML_ATTR_ID, XML_ATTR_CRM_VERSION, XML_LRM_ATTR_OP_DIGEST, XML_LRM_ATTR_TARGET,
     XML_LRM_ATTR_TARGET_UUID, s_pcmk_external_ip}

UpperCase == <<"A", "B", "C", "D", "E", "F", "G", "H", "I", "J", "K", "L", "M", "N", "O", "P", "Q", "R", "S", "T", "U", "V", "W", "X", "Y", "Z">>

LowerCase == <<"a", "b", "c", "d", "e", "f", "g", "h", "i", "j", "k", "l", "m", "n", "o", "p", "q", "r", "s", "t", "u", "v", "w", "x", "y", "z">>

tolower(c) ==
    IF \E i \in 1..Len(UpperCase) : UpperCase[i] = c
    THEN LowerCase[CHOOSE i \in 1..Len(UpperCase) : UpperCase[i] = c]
    ELSE c

\* the character at position i of a C string, the terminator past its end
CharAt(a, i) == IF i <= Len(a) THEN tolower(a[i]) ELSE "NUL"

\* strncasecmp(a, b, n) == 0: equal, case ignored, up to n characters or up to
\* the terminator
strncasecmp_eq(a, b, n) ==
    \A i \in 1..n :
        (\A j \in 1..(i - 1) : CharAt(a, j) /= "NUL") => CharAt(a, i) = CharAt(b, i)

\* crm_meta_name(field): CRM_META "_" field, every '-' replaced by '_'
crm_meta_name(field) ==
    CRM_META \o <<Underscore>>
      \o [i \in 1..Len(field) |-> IF field[i] = "-" THEN Underscore ELSE field[i]]

\* xml_remove_prop
xml_remove_prop(xml, name) == [n \in DOMAIN xml \ {name} |-> xml[n]]

\* crm_xml_add
crm_xml_add(xml, name, value) ==
    [n \in DOMAIN xml \cup {name} |-> IF n = name THEN value ELSE xml[n]]

\* crm_element_value_copy
crm_element_value_copy(xml, name) == IF name \in DOMAIN xml THEN xml[name] ELSE NULL

\* the decimal value of a string of digits, as a guint
RECURSIVE ParseDigits(_, _)
ParseDigits(s, acc) ==
    IF s = <<>> THEN acc
    ELSE With(U32Add(U32Mul10(acc), U32Small(DigitVal(Head(s)))),
              LAMBDA sum : ParseDigits(Tail(s), sum))

\* crm_element_value_ms: the attribute read as a number of milliseconds;
\* absent, not a number or negative is an error
crm_element_value_ms(xml, name) ==
    LET value == crm_element_value_copy(xml, name)
    IN  IF value = NULL \/ value = <<>> \/ \E i \in 1..Len(value) : ~isdigit(value[i])
        THEN [rc |-> -1, dest |-> U32Zero]
        ELSE [rc |-> 0, dest |-> ParseDigits(value, U32Zero)]

\* lines 293-296
RemoveFiltered(xml) == [n \in DOMAIN xml \ attr_filter |-> xml[n]]

\* RemoveMeta sparing the interval attribute
RemoveMetaKeepInterval(xml) ==
    [n \in {m \in DOMAIN xml : \/ ~strncasecmp_eq(m, CRM_META, Len(CRM_META))
                               \/ m = crm_meta_name(XML_LRM_ATTR_INTERVAL_MS)} |->
        xml[n]]

\* lines 307-317
RemoveMeta(xml) ==
    [n \in {m \in DOMAIN xml : ~strncasecmp_eq(m, CRM_META, Len(CRM_META))} |-> xml[n]]

\* lines 298-301
DigestInterval(xml) ==
    LET got == crm_element_value_ms(xml, crm_meta_name(XML_LRM_ATTR_INTERVAL_MS))
    IN  IF got.rc /= 0 THEN U32Zero ELSE got.dest

\* the filter adding the timeout back whatever the interval is
FilterTimeoutAlwaysKept(param) ==
    IF param.null THEN param
    ELSE
      With(RemoveFiltered(param.attrs), LAMBDA first :
        LET tkey == crm_meta_name(XML_ATTR_TIMEOUT)
            timeout == crm_element_value_copy(first, tkey)
            rest == RemoveMeta(first)
        IN  IF timeout /= NULL
            THEN Xml(crm_xml_add(rest, tkey, timeout))
            ELSE Xml(rest))

pcmk__filter_op_for_digest(param) ==
    IF param.null THEN param
    ELSE
      With(RemoveFiltered(param.attrs), LAMBDA first :
        LET interval == DigestInterval(first)
            tkey == crm_meta_name(XML_ATTR_TIMEOUT)
            timeout == crm_element_value_copy(first, tkey)
            rest == RemoveMeta(first)
        IN  IF interval /= U32Zero /\ timeout /= NULL
            THEN Xml(crm_xml_add(rest, tkey, timeout))
            ELSE Xml(rest))

----------------------------------------------------------------------------
(* What the callers pass *)

MaxTokens == 4

MaxFilterRuns == 2

\* every string made of at most MaxTokens of the given pieces
Pieces(tokens) ==
    {Concat(ts) : ts \in UNION {[1..n -> tokens] : n \in 0..MaxTokens}}

RscIds == {NULL, <<>>, <<"r">>, <<"r", "s", "c", "1">>, <<"m", "y", "_", "r", "s", "c">>, <<"r", "_", "p", "r", "e", "_", "n", "o", "t", "i", "f", "y">>}

OpTypes == {NULL, <<>>, <<"s", "t", "a", "r", "t">>, <<"m", "o", "n", "i", "t", "o", "r">>, <<"m", "1">>, <<"m", "i", "g", "r", "a", "t", "e", "_", "t", "o">>}

Intervals ==
    {U32Zero, U32Small(5), U32Small(10), U32Small(60000), U32(1, 0),
     U32(15258, 51712), U32(65535, 65535)}

NotifyTypes == {NULL, <<"p", "r", "e">>, <<"p", "o", "s", "t">>}

CallerOpKeys ==
    {NULL} \cup Pieces({<<"r">>, <<"_">>, <<"0">>, <<"5">>, <<"s", "t", "a", "r", "t">>, s_pre_notify})

Ints == {-2147483647 - 1, -1, 0, 2147483647}

LongId == <<"0", "1", "2", "3", "4", "5", "6", "7", "8", "9", "a", "b", "c", "d", "e", "f", "0", "1", "2", "3", "4", "5", "6", "7", "8", "9", "a", "b", "c", "d", "e", "f", "0", "1", "2", "3", "4", "5", "6", "7", "8", "9">>

Nodes ==
    {NULL, <<>>, <<"n", "o", "d", "e", "1">>, <<"a", " ", "b">>, <<" ">>, <<" ", "n">>}
      \cup {SubSeq(LongId, 1, n) : n \in {UuidWidth - 1, UuidWidth, UuidWidth + 1, Len(LongId)}}

CallerTransitionKeys ==
    {NULL} \cup Pieces({<<"1", ":">>, <<"x", ":">>, <<"-", "7", ":">>, <<"7">>, <<"a">>, <<"a", ":", "b">>, <<" ">>})

MagicHeads == {<<>>, <<"x">>, <<"0">>, <<"0", ":">>, <<"0", ":", "0">>, <<"4", ":", "1", ";">>, <<"0", ":", "0", ";">>, <<" ", "0", ":", " ", "1", ";", " ">>}

MagicTails == {<<>>, <<"1", ":", "2", ":", "3", ":", "a">>, <<"1", ":", "2", ":", "x">>, <<"1", ":", "2", ":", "3", ":">> \o SubSeq(LongId, 1, UuidWidth)}

CallerMagics == {NULL} \cup {h \o t : h \in MagicHeads, t \in MagicTails}

\* what the caller's output variables hold before a decoder is called
PriorOutputs ==
    {[uuid |-> NULL, transition_id |-> -1, action_id |-> -1, op_status |-> -1,
      op_rc |-> -1, target_rc |-> -1],
     [uuid |-> <<"o", "l", "d">>, transition_id |-> 7, action_id |-> 8, op_status |-> 4,
      op_rc |-> 1, target_rc |-> 9]}

OpStatuses ==
    {"PCMK_LRM_OP_UNKNOWN", "PCMK_LRM_OP_PENDING", "PCMK_LRM_OP_DONE",
     "PCMK_LRM_OP_CANCELLED", "PCMK_LRM_OP_TIMEOUT", "PCMK_LRM_OP_NOTSUPPORTED",
     "PCMK_LRM_OP_ERROR", "PCMK_LRM_OP_ERROR_HARD", "PCMK_LRM_OP_ERROR_FATAL",
     "PCMK_LRM_OP_NOT_INSTALLED", "PCMK_LRM_OP_NOT_CONNECTED", "PCMK_LRM_OP_INVALID"}

ReturnCodes == {0, 1, 7, 8}

Classes == {NULL, c_ocf, c_stonith, c_lsb, c_systemd, <<"O", "C", "F">>}

Actions ==
    {NULL, <<>>, CRMD_ACTION_START, CRMD_ACTION_STATUS, CRMD_ACTION_PROMOTE,
     CRMD_ACTION_DEMOTE, CRMD_ACTION_RELOAD, CRMD_ACTION_MIGRATE,
     CRMD_ACTION_MIGRATED, CRMD_ACTION_NOTIFY, <<"s", "t", "o", "p">>, <<"v", "a", "l", "i", "d", "a", "t", "e", "-", "a", "l", "l">>, <<"S", "t", "a", "r", "t">>,
     <<"s", "t", "a", "t", "u", "s">>, <<"s", "t", "a", "r", "t", "s">>}

\* the attributes an element given to the digest filter may carry, each with
\* the values it may have
MetaInterval == crm_meta_name(XML_LRM_ATTR_INTERVAL_MS)

MetaTimeout == crm_meta_name(XML_ATTR_TIMEOUT)

PlainAttrs ==
    {XML_ATTR_ID, XML_LRM_ATTR_TARGET, <<"i", "p">>, <<"c", "r", "m", "_", "m", "e", "t", "a", "_", "t", "i", "m", "e", "o", "u", "t">>, <<"C", "R", "M", "_", "M", "E", "T", "A", "_", "o", "n", "_", "f", "a", "i", "l">>}

IntervalValues == {NULL, <<"0">>, <<"6", "0", "0", "0", "0">>, <<"a", "b", "c">>, <<"-", "5">>}

TimeoutValues == {NULL, <<"2", "0", "0", "0", "0">>, <<"9", "0">>}

ParamOf(D, iv, tv) ==
    [n \in D \cup (IF iv = NULL THEN {} ELSE {MetaInterval})
             \cup (IF tv = NULL THEN {} ELSE {MetaTimeout}) |->
        IF n = MetaInterval THEN iv ELSE IF n = MetaTimeout THEN tv ELSE <<"v">>]

ParamSets ==
    {XmlNull} \cup
    {Xml(ParamOf(D, iv, tv)) :
        D \in SUBSET PlainAttrs, iv \in IntervalValues, tv \in TimeoutValues}

----------------------------------------------------------------------------
(* The calls *)

Outputs ==
    [uuid |-> uuid, transition_id |-> transition_id, action_id |-> action_id,
     op_status |-> op_status, op_rc |-> op_rc, target_rc |-> target_rc]

AllOutputs ==
    {"uuid", "transition_id", "action_id", "op_status", "op_rc", "target_rc"}

KeyVars == <<rsc_id, op_type, interval_ms>>

TransitionVars == <<uuid, transition_id, action_id, op_status, op_rc, target_rc, pre>>

FilterVars == <<param_set, filtered>>

Init ==
    /\ last = "none"
    /\ key = NULL
    /\ src = [fn |-> "none"]
    /\ ret = FALSE
    /\ fate = "running"
    /\ rsc_id = NULL
    /\ op_type = NULL
    /\ interval_ms = U32Zero
    /\ uuid = NULL
    /\ transition_id = 0
    /\ action_id = 0
    /\ op_status = 0
    /\ op_rc = 0
    /\ target_rc = 0
    /\ pre = [uuid |-> NULL, transition_id |-> 0, action_id |-> 0, op_status |-> 0,
              op_rc |-> 0, target_rc |-> 0]
    /\ param_set = XmlNull
    /\ filtered = <<>>

\* a caller builds an operation key
OpKey ==
    /\ last = "none"
    /\ \E r \in RscIds, a \in OpTypes, i \in Intervals :
         \E got \in {pcmk__op_key(r, a, i)} :
             /\ key' = got.key
             /\ fate' = IF got.ret = "abort" THEN "abort" ELSE fate
             /\ src' = [fn |-> "pcmk__op_key", rsc_id |-> r, op_type |-> a,
                        interval_ms |-> i]
    /\ last' = "pcmk__op_key"
    /\ UNCHANGED <<ret, KeyVars, TransitionVars, FilterVars>>

\* a caller builds the key of a notification
NotifyKey ==
    /\ last = "none"
    /\ \E r \in RscIds, n \in NotifyTypes, a \in OpTypes :
         /\ key' = pcmk__notify_key(r, n, a).key
         /\ src' = [fn |-> "pcmk__notify_key", rsc_id |-> r, notify_type |-> n,
                    op_type |-> a]
    /\ last' = "pcmk__notify_key"
    /\ UNCHANGED <<ret, fate, KeyVars, TransitionVars, FilterVars>>

\* parse_op_key on a key a caller received, or on the key just built
ParseOpKey ==
    /\ fate = "running"
    /\ \E k \in IF last = "none" THEN CallerOpKeys
                ELSE IF last \in {"pcmk__op_key", "pcmk__notify_key"} THEN {key}
                ELSE {} :
         \E got \in {parse_op_key(k)} :
             /\ key' = k
             /\ IF got.ub
                THEN \* key[offset] is read outside the string: anything may follow
                     /\ fate' \in {"crash", "undefined"}
                     /\ ret' \in BOOLEAN
                     /\ rsc_id' \in {NULL, <<"?">>}
                     /\ op_type' \in {NULL, <<"?">>}
                     /\ interval_ms' = got.interval_ms
                ELSE /\ fate' = fate
                     /\ ret' = got.ret
                     /\ rsc_id' = got.rsc_id
                     /\ op_type' = got.op_type
                     /\ interval_ms' = got.interval_ms
    /\ last' = "parse_op_key"
    /\ UNCHANGED <<src, TransitionVars, FilterVars>>

\* a caller builds a transition key
TransitionKey ==
    /\ last = "none"
    /\ \E tid \in Ints, aid \in Ints, trc \in Ints, node \in Nodes :
         /\ key' = pcmk__transition_key(tid, aid, trc, node)
         /\ src' = [fn |-> "pcmk__transition_key", transition_id |-> tid,
                    action_id |-> aid, target_rc |-> trc, node |-> node]
    /\ last' = "pcmk__transition_key"
    /\ UNCHANGED <<ret, fate, KeyVars, TransitionVars, FilterVars>>

\* the output variables after a decoder has run
Decoded(prior, got) ==
    /\ pre' = prior
    /\ ret' = got.ret
    /\ uuid' = got.out.uuid
    /\ transition_id' = got.out.transition_id
    /\ action_id' = got.out.action_id
    /\ op_status' = got.out.op_status
    /\ op_rc' = got.out.op_rc
    /\ target_rc' = got.out.target_rc

\* decode_transition_key on a key a caller received, or on the key just built
DecodeTransitionKey ==
    /\ \E k \in IF last = "none" THEN CallerTransitionKeys
                ELSE IF last = "pcmk__transition_key" THEN {key}
                ELSE {} :
       \E prior \in PriorOutputs :
         /\ key' = k
         /\ \E got \in {decode_transition_key(k, prior,
                            AllOutputs \ {"op_status", "op_rc"})} :
              Decoded(prior, got)
    /\ last' = "decode_transition_key"
    /\ UNCHANGED <<src, fate, KeyVars, FilterVars>>

\* decode_transition_magic on a magic string a caller received, or on the one
\* an executor made of a status, a return code and the key just built
DecodeTransitionMagic ==
    /\ \E m \in IF last = "none" THEN CallerMagics
                ELSE IF last = "pcmk__transition_key" /\ key /= NULL
                THEN {FmtD(st) \o <<Colon>> \o FmtD(rc) \o <<Semicolon>> \o key :
                         st \in {0, 2}, rc \in {0, 7}}
                ELSE {} :
       \E prior \in PriorOutputs :
         /\ key' = m
         /\ \E got \in {decode_transition_magic(m, prior, AllOutputs)} :
              Decoded(prior, got)
    /\ last' = "decode_transition_magic"
    /\ UNCHANGED <<src, fate, KeyVars, FilterVars>>

\* rsc_op_expected_rc on no event, or on an event whose user data is absent, a
\* string a caller received, or the key just built
ExpectedRc ==
    /\ \E op \in IF last = "none"
                 THEN {NoEvent} \cup {Event(k, "PCMK_LRM_OP_DONE", 0) :
                                         k \in CallerTransitionKeys}
                 ELSE IF last = "pcmk__transition_key"
                 THEN {Event(key, "PCMK_LRM_OP_DONE", 0)}
                 ELSE {} :
         /\ key' = op.user_data
         /\ src' = IF last = "none" THEN [fn |-> "none", event |-> op /= NoEvent]
                   ELSE src
         /\ ret' = rsc_op_expected_rc(op)
    /\ last' = "rsc_op_expected_rc"
    /\ UNCHANGED <<fate, KeyVars, TransitionVars, FilterVars>>

DidRscOpFail ==
    /\ last = "none"
    /\ \E st \in OpStatuses, rc \in ReturnCodes, trc \in ReturnCodes :
         /\ src' = [fn |-> "none", op_status |-> st, rc |-> rc, target_rc |-> trc]
         /\ ret' = did_rsc_op_fail(Event(NULL, st, rc), trc)
    /\ last' = "did_rsc_op_fail"
    /\ UNCHANGED <<key, fate, KeyVars, TransitionVars, FilterVars>>

NeedsMetadata ==
    /\ last = "none"
    /\ \E c \in Classes, a \in Actions :
         /\ src' = [fn |-> "none", rsc_class |-> c, op |-> a]
         /\ ret' = crm_op_needs_metadata(c, a)
    /\ last' = "crm_op_needs_metadata"
    /\ UNCHANGED <<key, fate, KeyVars, TransitionVars, FilterVars>>

\* pcmk__filter_op_for_digest on a parameter set, and again on its own result
FilterOpForDigest ==
    /\ Len(filtered) < MaxFilterRuns
    /\ \E p \in IF last = "none" THEN ParamSets
                ELSE IF last = "pcmk__filter_op_for_digest" THEN {param_set}
                ELSE {} :
         /\ \E out \in {pcmk__filter_op_for_digest(p)} :
              /\ param_set' = out
              /\ filtered' = Append(filtered, out)
         /\ src' = IF last = "none" THEN [fn |-> "none", param_set |-> p] ELSE src
    /\ last' = "pcmk__filter_op_for_digest"
    /\ UNCHANGED <<key, ret, fate, KeyVars, TransitionVars>>

Next ==
    \/ OpKey
    \/ NotifyKey
    \/ ParseOpKey
    \/ TransitionKey
    \/ DecodeTransitionKey
    \/ DecodeTransitionMagic
    \/ ExpectedRc
    \/ DidRscOpFail
    \/ NeedsMetadata
    \/ FilterOpForDigest

Spec == Init /\ [][Next]_vars

----------------------------------------------------------------------------
(* Operation-key round trip *)

NoDelimiter(x) == x /= NULL /\ x /= <<>> /\ ~HasChar(x, Underscore)

RoundTripOpKey ==
    /\ last = "parse_op_key"
    /\ src.fn = "pcmk__op_key"
    /\ NoDelimiter(src.rsc_id)
    /\ NoDelimiter(src.op_type)

\* C1: parse_op_key of the key pcmk__op_key makes of a non-empty resource id and
\* a non-empty action, both without '_', and any 32-bit interval returns TRUE
\* and gives back exactly that resource id, action and interval.
C1_OpKeyRoundTrip ==
    RoundTripOpKey =>
        /\ ret = TRUE
        /\ rsc_id = src.rsc_id
        /\ op_type = src.op_type
        /\ interval_ms = src.interval_ms

C1_Witness ==
    /\ RoundTripOpKey
    /\ src.interval_ms = U32(Limb - 1, Limb - 1)
    /\ interval_ms = U32(Limb - 1, Limb - 1)
    /\ op_type = <<"m", "1">>

----------------------------------------------------------------------------
(* Transition-key round trip *)

RoundTripTransitionKey ==
    /\ last = "decode_transition_key"
    /\ src.fn = "pcmk__transition_key"
    /\ src.node /= NULL
    /\ src.node /= <<>>

\* node cut to the field width or padded with spaces up to it
FixedWidth(node) ==
    IF Len(node) >= UuidWidth THEN SubSeq(node, 1, UuidWidth)
    ELSE node \o [i \in 1..(UuidWidth - Len(node)) |-> Space]

SameIds ==
    /\ transition_id = src.transition_id
    /\ action_id = src.action_id
    /\ target_rc = src.target_rc

\* C2 as stated: the round trip succeeds for every non-empty node_id and the
\* UUID is node_id truncated or space-padded to exactly 36 characters.
C2_RoundTripFixedWidth ==
    RoundTripTransitionKey => ret = TRUE /\ SameIds /\ uuid = FixedWidth(src.node)

AllSpace(node) == \A i \in 1..Len(node) : node[i] = Space

\* u is the first word of node, cut to at most 36 characters
FirstWord(u, node) ==
    \E p \in 0..(Len(node) - 1) :
        /\ \A i \in 1..p : node[i] = Space
        /\ node[p + 1] /= Space
        /\ Len(u) \in 1..UuidWidth
        /\ p + Len(u) <= Len(node)
        /\ u = [i \in 1..Len(u) |-> node[p + i]]
        /\ ~HasChar(u, Space)
        /\ \/ Len(u) = UuidWidth
           \/ p + Len(u) = Len(node)
           \/ node[p + Len(u) + 1] = Space

\* C2, amended: for a non-empty node_id the round trip fails when node_id is
\* all white space; otherwise it succeeds, yields the same transition_id,
\* action_id and target_rc, and a UUID that is the first white-space-delimited
\* word of node_id cut to at most 36 characters, never padded (node_id itself
\* when it has no white space and at most 36 characters).
C2_TransitionKeyRoundTrip ==
    RoundTripTransitionKey =>
        IF AllSpace(src.node) THEN ret = FALSE
        ELSE ret = TRUE /\ SameIds /\ FirstWord(uuid, src.node)

C2_Witness ==
    /\ RoundTripTransitionKey
    /\ ret = TRUE
    /\ Len(src.node) < UuidWidth
    /\ uuid = src.node
    /\ transition_id < 0
    /\ action_id > 0

----------------------------------------------------------------------------
(* Result classification *)

\* C3: did_rsc_op_fail is FALSE for Pending and Cancelled, TRUE for
\* NotSupported, Timeout, Error, NotConnected and Invalid, whatever the return
\* codes, and for every other status TRUE exactly when rc differs from target_rc.
C3_ResultClassification ==
    last = "did_rsc_op_fail" =>
        /\ src.op_status \in {"PCMK_LRM_OP_PENDING", "PCMK_LRM_OP_CANCELLED"}
             => ret = FALSE
        /\ src.op_status \in {"PCMK_LRM_OP_NOTSUPPORTED", "PCMK_LRM_OP_TIMEOUT",
                              "PCMK_LRM_OP_ERROR", "PCMK_LRM_OP_NOT_CONNECTED",
                              "PCMK_LRM_OP_INVALID"}
             => ret = TRUE
        /\ src.op_status \in {"PCMK_LRM_OP_DONE", "PCMK_LRM_OP_UNKNOWN",
                              "PCMK_LRM_OP_ERROR_HARD", "PCMK_LRM_OP_ERROR_FATAL",
                              "PCMK_LRM_OP_NOT_INSTALLED"}
             => ret = (src.rc /= src.target_rc)

C3_Witness ==
    /\ last = "did_rsc_op_fail"
    /\ src.op_status = "PCMK_LRM_OP_CANCELLED"
    /\ src.rc /= src.target_rc
    /\ ret = FALSE

----------------------------------------------------------------------------
(* The digest filter *)

Digit0 == "0"

\* the attribute is there and its value is a decimal number other than 0
NonZeroNumber(attrs, name) ==
    /\ name \in DOMAIN attrs
    /\ attrs[name] /= <<>>
    /\ \A i \in 1..Len(attrs[name]) : isdigit(attrs[name][i])
    /\ \E i \in 1..Len(attrs[name]) : attrs[name][i] /= Digit0

\* the input is recurring and carries a timeout
Recurring(attrs) == NonZeroNumber(attrs, MetaInterval) /\ MetaTimeout \in DOMAIN attrs

\* C4 as stated: applying the filter twice leaves what applying it once leaves.
C4_FilterIdempotent ==
    \A i \in 2..Len(filtered) : filtered[i] = filtered[1]

\* C4, amended: applying the filter twice leaves what applying it once leaves
\* with the namespaced timeout attribute removed; the two results are the same
\* exactly when the input does not have both a non-zero namespaced interval and
\* a namespaced timeout.
C4_FilterTwice ==
    \A i \in 2..Len(filtered) :
        /\ filtered[i].null = filtered[1].null
        /\ filtered[i].attrs = xml_remove_prop(filtered[1].attrs, MetaTimeout)
        /\ (filtered[i] = filtered[1]) <=>
             (src.param_set.null \/ ~Recurring(src.param_set.attrs))

C4_Witness ==
    /\ Len(filtered) = 2
    /\ Recurring(src.param_set.attrs)
    /\ MetaTimeout \in DOMAIN filtered[1].attrs
    /\ MetaTimeout \notin DOMAIN filtered[2].attrs

\* C7: after one application the namespaced timeout is present, with the
\* value it had, exactly when the input had a namespaced interval that is a
\* number other than 0 and a namespaced timeout; with the interval 0, not a
\* number or absent the timeout is absent from the result.
C7_TimeoutRetention ==
    (Len(filtered) >= 1 /\ ~src.param_set.null) =>
        /\ MetaTimeout \in DOMAIN filtered[1].attrs <=> Recurring(src.param_set.attrs)
        /\ MetaTimeout \in DOMAIN filtered[1].attrs =>
             filtered[1].attrs[MetaTimeout] = src.param_set.attrs[MetaTimeout]

C7_Witness ==
    /\ Len(filtered) = 1
    /\ MetaTimeout \in DOMAIN src.param_set.attrs
    /\ MetaInterval \in DOMAIN src.param_set.attrs
    /\ src.param_set.attrs[MetaInterval] = <<"0">>
    /\ MetaTimeout \notin DOMAIN filtered[1].attrs

----------------------------------------------------------------------------
(* rsc_op_expected_rc *)

\* decode_transition_key takes the string for a transition key
Accepted(k) == k /= NULL /\ sscanf_key(k).n = 4

\* C5 as stated: rsc_op_expected_rc returns the target_rc of the transition key
\* in the user data when that key is well formed, and 0 when the operation or
\* its user data is absent or the user data is no well-formed transition key.
C5_ExpectedRcDefault ==
    last = "rsc_op_expected_rc" =>
        ret = IF Accepted(key) THEN sscanf_key(key).local_target_rc ELSE 0

----------------------------------------------------------------------------
(* crm_op_needs_metadata *)

MetadataActions ==
    {CRMD_ACTION_START, CRMD_ACTION_STATUS, CRMD_ACTION_PROMOTE, CRMD_ACTION_DEMOTE,
     CRMD_ACTION_RELOAD, CRMD_ACTION_MIGRATE, CRMD_ACTION_MIGRATED,
     CRMD_ACTION_NOTIFY}

\* the class is absent or supports parameters
MetadataAsked ==
    /\ last = "crm_op_needs_metadata"
    /\ \/ src.rsc_class = NULL
       \/ "pcmk_ra_cap_params" \in pcmk_get_ra_caps(src.rsc_class)

\* C6 as stated: with the class absent or supporting parameters the result is
\* true exactly for the eight actions; a null action with a class given
\* returns false.
C6_NullActionNotNeeded ==
    MetadataAsked => ret = (src.op \in MetadataActions)

\* C6, amended: with the class absent or supporting parameters the result is
\* true exactly when the action is one of start, monitor, promote, demote,
\* reload, migrate_to, migrate_from, notify, or the action is null and a class
\* is given (a null action skips the action check); every other action, and
\* a null action with no class, returns false.
C6_NeedsMetadata ==
    MetadataAsked =>
        ret = (\/ src.op \in MetadataActions
               \/ src.op = NULL /\ src.rsc_class /= NULL)

C6_Witness ==
    /\ MetadataAsked
    /\ src.op = NULL
    /\ src.rsc_class = c_ocf
    /\ ret = TRUE

----------------------------------------------------------------------------
(* Malformed transition magic and transition keys *)

\* the magic string lacks the ';' or has fewer than 3 leading components
IncompleteMagic ==
    /\ last = "decode_transition_magic"
    /\ key /= NULL
    /\ ~HasChar(key, Semicolon) \/ sscanf_magic(key).n < 3

\* C8 as stated: on such a magic string decode_transition_magic fails and
\* leaves every output at its default, -1 or null.
C8_IncompleteMagicDefaults ==
    IncompleteMagic =>
        /\ ret = FALSE
        /\ uuid = NULL
        /\ transition_id = -1
        /\ action_id = -1
        /\ op_status = -1
        /\ op_rc = -1
        /\ target_rc = -1

\* the positions of the ':' in k, and the fields between them
ColonsOf(k) == {i \in 1..Len(k) : k[i] = Colon}

FieldOf(k, n) ==
    LET before == {i \in ColonsOf(k) : Cardinality({j \in ColonsOf(k) : j <= i}) = n - 1}
        after == {i \in ColonsOf(k) : Cardinality({j \in ColonsOf(k) : j <= i}) = n}
        from == IF before = {} THEN 1 ELSE (CHOOSE i \in before : TRUE) + 1
        to == IF after = {} THEN Len(k) ELSE (CHOOSE i \in after : TRUE) - 1
    IN  SubSeq(k, from, to)

\* a decimal number, white space and a sign before it allowed
Numeric(f) == ScanInt(f, 1).ok /\ ScanInt(f, 1).next = Len(f) + 1

ExactlyFourFields(k) ==
    /\ Cardinality(ColonsOf(k)) = 3
    /\ \A n \in 1..3 : Numeric(FieldOf(k, n))
    /\ FieldOf(k, 4) /= <<>>

\* C9 as stated: decode_transition_key succeeds only on strings of exactly four
\* delimiter-separated fields, the first three numeric; a string with further
\* delimiter-separated fields after the fourth is rejected.
C9_ExactlyFourFields ==
    (last = "decode_transition_key" /\ key /= NULL /\ ret = TRUE)
        => ExactlyFourFields(key)

\* C10 as stated: for every non-null node the key pcmk__transition_key makes is
\* "<action_id>:<transition_id>:<target_rc>:" and then exactly 36 characters,
\* the node padded with spaces when shorter and cut to 36 when longer.
C10_NodeFieldFixedWidth ==
    (last = "pcmk__transition_key" /\ src.node /= NULL) =>
        key = FmtD(src.action_id) \o <<Colon>> \o FmtD(src.transition_id)
                \o <<Colon>> \o FmtD(src.target_rc) \o <<Colon>>
                \o FixedWidth(src.node)

----------------------------------------------------------------------------
(* Notification keys *)

\* parse_op_key took the key and returned
Parsed == last = "parse_op_key" /\ fate = "running"

\* the number of digits k ends in
DigitRun(k) ==
    CHOOSE n \in 0..Len(k) :
        /\ \A i \in (Len(k) - n + 1)..Len(k) : isdigit(k[i])
        /\ n = Len(k) \/ ~isdigit(k[Len(k) - n])

\* the position, from 1, of the last '_' of k before position d; 0 if none
LastDelimiterBefore(k, d) ==
    LET at == {i \in 1..(d - 1) : k[i] = Underscore}
    IN  IF at = {} THEN 0 ELSE CHOOSE i \in at : \A j \in at : j <= i

\* what is left of "<prefix>_<action>_<interval>" without "_<action>_<interval>"
KeyPrefix(k) ==
    SubSeq(k, 1, LastDelimiterBefore(k, Len(k) - DigitRun(k)) - 1)

EndsWith(s, marker) ==
    /\ Len(s) >= Len(marker)
    /\ SubSeq(s, Len(s) - Len(marker) + 1, Len(s)) = marker

WithoutSuffix(s, marker) == SubSeq(s, 1, Len(s) - Len(marker))

\* C11 as stated: for every key that parses, the resource id returned is the
\* prefix left of "_<action>_<interval>" without a "_pre_notify" or
\* "_post_notify" that ends it, and that prefix unchanged, markers elsewhere in
\* it included, when it ends in neither.
C11_NotifySuffixStripped ==
    (Parsed /\ ret = TRUE) =>
        rsc_id = IF EndsWith(KeyPrefix(key), s_pre_notify)
                 THEN WithoutSuffix(KeyPrefix(key), s_pre_notify)
                 ELSE IF EndsWith(KeyPrefix(key), s_post_notify)
                 THEN WithoutSuffix(KeyPrefix(key), s_post_notify)
                 ELSE KeyPrefix(key)

----------------------------------------------------------------------------
(* Arguments the encoders are to refuse *)

NullOrEmpty(x) == x = NULL \/ x = <<>>

\* the encoder came back to its caller with an error and no key
RefusedKey == fate = "running" /\ key = NULL

\* C12 as stated: pcmk__op_key returns an error and no key when the resource id
\* or the action is null or empty, and so does pcmk__transition_key when the
\* node is null or empty.
C12_EncodersRefuseNullOrEmpty ==
    /\ (last = "pcmk__op_key"
          /\ (NullOrEmpty(src.rsc_id) \/ NullOrEmpty(src.op_type))) => RefusedKey
    /\ (last = "pcmk__transition_key" /\ NullOrEmpty(src.node)) => RefusedKey

----------------------------------------------------------------------------
(* Malformed operation keys *)

\* parse_op_key was called on a string of at least one character
ParsedNonEmpty == last = "parse_op_key" /\ ~NullOrEmpty(key)

\* C13 as stated: on every non-empty key parse_op_key keeps its offset within
\* the string in both backward scans, a key that starts with the '_' before its
\* trailing digits included, so that the call reads nothing outside the key and
\* comes back, with FALSE when the key is malformed.
C13_NoReadOutsideKey ==
    ParsedNonEmpty => /\ fate = "running"
                      /\ ~parse_op_key(key).ub

\* C14 as stated: whenever parse_op_key returns FALSE, each output holds the
\* default it was given on entry: no resource id, no action, interval 0.
C14_FailedParseDefaults ==
    (Parsed /\ ret = FALSE) =>
        /\ rsc_id = NULL
        /\ op_type = NULL
        /\ interval_ms = U32Zero

----------------------------------------------------------------------------
(* What a failed decode_transition_magic leaves behind *)

\* C15 as stated: whenever decode_transition_magic returns FALSE, the caller's
\* op_status and op_rc are what they were before the call, also when the
\* "<op_status>:<op_rc>;" part was read and decode_transition_key refused the
\* rest.
C15_FailedMagicKeepsStatus ==
    (last = "decode_transition_magic" /\ ret = FALSE) =>
        /\ op_status = pre.op_status
        /\ op_rc = pre.op_rc

====
